---- MODULE Spec2Model ----
(***************************************************************************)
(* Model of the Contentful "page status" sidebar app.                      *)
(*                                                                         *)
(*   - fetchReferencesIteratively: the iterative collection of every      *)
(*     entry and asset referenced from the entry being edited;             *)
(*   - buildReferenceInformation: the status summary of that collection;   *)
(*   - doPublish: publishing (or scheduling) the pending assets, then the  *)
(*     pending entries, then the entry itself;                             *)
(*   - the Sidebar component's status, and the handlers that start these.  *)
(*                                                                         *)
(* The content repository is the environment: what a references call       *)
(* returns, and whether a call succeeds, is chosen when the call settles.  *)
(***************************************************************************)
EXTENDS Integers, Sequences, FiniteSets, TLC

(***************************************************************************)
(* Bounds of the model.                                                    *)
(***************************************************************************)
\* the longest list of entries one references call returns (it returns at
\* most one asset)
MaxIncludes == 2
\* how many records of the repository have no field values at all
MaxMalformed == 1
\* the latest publishedAt of a record when the Sidebar is opened
MaxTime == 2

(***************************************************************************)
(* The repository's records.  RootId is the entry open in the editor.      *)
(***************************************************************************)
RootId == "root"
EntryIds == {"root", "A", "B"}
AssetIds == {"X", "Y"}
ContentTypes == {"page", "component"}
Lifecycles == {"draft", "updated", "published"}

EXCLUDED_CONTENT_TYPES ==
  {"article", "page", "articleType", "person", "tag", "template",
   "customType", "navigation"}

VARIABLES
  \* ---- the repository
  ctype,              \* entry id -> content type id (entry.sys.contentType.sys.id)
  noFields,           \* the entries with fields {} and the assets with no title
  sys,                \* record id -> its lifecycle state and publishedAt (0: none)
  clock,              \* the repository's time
  \* ---- fetchReferencesIteratively
  tpc,                \* "idle" | "loop" | "fetch" | "returned"
  entriesToProcess,   \* the queue
  entriesQueued,
  processedEntryIds,  \* allReferences.processedEntryIds
  trackedEntryIds,
  trackedAssetIds,
  entries,            \* allReferences.entries (ids, in the order added)
  assets,             \* allReferences.assets
  errors,             \* allReferences.errors
  processed,
  total,
  currentEntryId,
  \* ---- what the environment saw of the traversal
  fetchCalls,         \* the entry ids of the references calls issued, in order
  outcome,            \* entry id -> how its references call settled: "resolved",
                      \* "nothing", "rejected", or "none" while it has not
  returned,           \* the entry and asset ids the resolved calls returned
  returnedAgain,      \* the kinds ("Entry", "Asset") of which a record was
                      \* returned by more than one resolved call
  reports,            \* the (processed, total) reports handed to setProgress
  \* ---- doPublish
  impl,               \* which Sidebar: "scheduling" (doPublish with scheduledTime)
                      \* or "plain" (src/locations/Sidebar.tsx)
  ppc,                \* "idle" | "item" | "root" | "returned" | "threw"
  scheduledTime,      \* "" when the run publishes immediately
  pubQueue,           \* the pending assets, then the pending entries
  pubIndex,           \* the position in pubQueue of the item being processed
  pubTotal,
  pubPublished,       \* the counter published
  pubErrors,          \* the counter errors
  errored,
  scheduledActionIds,
  pubResult,          \* what doPublish returned: "none" | "true" | "false"
  \* ---- what the environment saw of the publish run
  calls,              \* the publish and schedule calls issued, in order
  settled,            \* how the calls settled, in order: TRUE when resolved,
                      \* FALSE when rejected
  snapshots,          \* the numbers of each status handed to setStatus
  \* ---- the Sidebar component
  status,             \* "Idle" | "Reading" | "Complete" | "Error" | "Publishing"
  progress,           \* the progress state: processed, total, isComplete
  information,        \* the summary of the last traversal, or NoInformation
  publishStatus       \* the numbers of the last status set, or NoPublishStatus

travVars ==
  <<tpc, entriesToProcess, entriesQueued, processedEntryIds, trackedEntryIds,
    trackedAssetIds, entries, assets, errors, processed, total, currentEntryId>>
envVars == <<fetchCalls, outcome, returned, returnedAgain, reports>>
worldVars == <<ctype, noFields, sys, clock>>
pubVars ==
  <<impl, ppc, scheduledTime, pubQueue, pubIndex, pubTotal, pubPublished,
    pubErrors, errored, scheduledActionIds, pubResult, calls, settled,
    snapshots, publishStatus>>
uiVars == <<status, progress, information>>
vars == <<worldVars, travVars, envVars, pubVars, uiVars>>

(***************************************************************************)
(* Helpers on sequences.                                                   *)
(***************************************************************************)
Range(s) == {s[i] : i \in 1..Len(s)}

NoDuplicates(s) == \A i, j \in 1..Len(s) : i # j => s[i] # s[j]

\* the sequences without repetition over S of length at most n
InjSeqs(S, n) ==
  UNION {{s \in [1..k -> S] : NoDuplicates(s)} : k \in 0..n}

Last(s) == s[Len(s)]

(***************************************************************************)
(* What a references call can resolve to: the linked entries and assets   *)
(* (references.includes) and the link errors (references.errors).          *)
(***************************************************************************)
LinkError == [id |-> "notResolvable", synthetic |-> FALSE]

SyntheticError(id) == [id |-> id, synthetic |-> TRUE]

Responses ==
  [Entry : InjSeqs(EntryIds, MaxIncludes),
   Asset : {<<>>} \cup {<<a>> : a \in AssetIds},
   errors : {<<>>, <<LinkError>>}]

\* the ids of the records a response includes
Included(resp) == Range(resp.Entry) \cup Range(resp.Asset)

KindsOf(ids) ==
  {k \in {"Entry", "Asset"} :
     \E id \in ids : IF k = "Entry" THEN id \in EntryIds ELSE id \in AssetIds}

Report(p, t) == [processed |-> p, total |-> t]

\* updateProgress: the progress state the Sidebar keeps of a report
updateProgress(r) ==
  [processed |-> r.processed, total |-> r.total,
   isComplete |-> (r.processed = r.total)]

(***************************************************************************)
(* fetchReferencesIteratively: the handling of one resolved response.      *)
(*                                                                         *)
(* L is the record of the locals the handling changes.  The argument of    *)
(* each debug(...) call is evaluated although debug does nothing: for an   *)
(* asset it reads asset.fields.title["en-US"], for an entry               *)
(* Object.entries(entry.fields)[0][1]["en-US"], and either raises a        *)
(* TypeError when the record has no such field.  L.threw records that the  *)
(* handling was left through the catch clause.                             *)
(***************************************************************************)
DebugThrows(id) == id \in noFields

\* a variant that never consults the set of tracked asset ids
AssetIsNewUntracked(assetId, tracked) == TRUE

AssetIsNew(assetId, tracked) == assetId \notin tracked

EntryIsNew(entryId, tracked) == entryId \notin tracked

\* a variant that excludes no content type
IsExcludedNever(contentType) == FALSE

IsExcluded(contentType) == contentType \in EXCLUDED_CONTENT_TYPES

\* a variant that never consults the set of queued entry ids
ShouldQueueUnchecked(entryId, queued) == ~IsExcluded(ctype[entryId])

ShouldQueue(entryId, queued) ==
  ~IsExcluded(ctype[entryId]) /\ entryId \notin queued

RECURSIVE ProcessAssets(_, _)
ProcessAssets(list, L) ==
  IF list = <<>> THEN L
  ELSE LET assetId == Head(list) IN
    IF DebugThrows(assetId) THEN [L EXCEPT !.threw = TRUE]
    ELSE ProcessAssets(Tail(list),
           IF AssetIsNew(assetId, L.trackedAssetIds)
           THEN [L EXCEPT !.assets = Append(@, assetId),
                          !.trackedAssetIds = @ \cup {assetId}]
           ELSE L)

\* a variant that puts the id at the head of the queue
PushFront(queue, id) == <<id>> \o queue

\* entriesToProcess.push(entryId)
Push(queue, id) == Append(queue, id)

RECURSIVE ProcessEntries(_, _, _)
ProcessEntries(list, L, p) ==
  IF list = <<>> THEN L
  ELSE LET entryId == Head(list) IN
    IF DebugThrows(entryId) THEN [L EXCEPT !.threw = TRUE]
    ELSE
      LET L1 == IF EntryIsNew(entryId, L.trackedEntryIds)
                THEN [L EXCEPT !.entries = Append(@, entryId),
                               !.trackedEntryIds = @ \cup {entryId}]
                ELSE L
          L2 == IF ShouldQueue(entryId, L1.entriesQueued)
                THEN [L1 EXCEPT !.entriesToProcess = Push(@, entryId),
                                !.entriesQueued = @ \cup {entryId},
                                !.total = @ + 1,
                                !.reports = Append(@, Report(p, L1.total + 1))]
                ELSE L1
      IN ProcessEntries(Tail(list), L2, p)

\* lines 128-188: the handling of a response, after processed was incremented
\* to p and reported
HandleResponse(resp, p) ==
  LET L0 == [entries |-> entries, assets |-> assets,
             trackedEntryIds |-> trackedEntryIds,
             trackedAssetIds |-> trackedAssetIds,
             entriesToProcess |-> entriesToProcess,
             entriesQueued |-> entriesQueued,
             total |-> total,
             reports |-> Append(reports, Report(p, total)),
             threw |-> FALSE]
      LA == ProcessAssets(resp.Asset, L0)
  IN IF LA.threw THEN LA ELSE ProcessEntries(resp.Entry, LA, p)

(***************************************************************************)
(* buildReferenceInformation.  isDraft, isUpdated and isPublished are      *)
(* contentful-management's tests of a record's sys; a record is in exactly *)
(* one of the three states.  Array.prototype.filter is SelectSeq.          *)
(***************************************************************************)
isDraft(id) == sys[id].state = "draft"

\* a variant that takes a draft for an updated record, too
isUpdatedOrDraft(id) == sys[id].state # "published"

isUpdated(id) == sys[id].state = "updated"

isPublished(id) == sys[id].state = "published"

\* a variant that takes a record published with the root for a later one
PublishedAfterOrAt(id, publishedDate) ==
  publishedDate # 0 /\ sys[id].publishedAt # 0
    /\ sys[id].publishedAt >= publishedDate

\* lines 238-245; publishedAt is an ISO 8601 timestamp in UTC, all of one
\* width, which > on strings orders as time does: a number here
PublishedAfter(id, publishedDate) ==
  publishedDate # 0 /\ sys[id].publishedAt # 0
    /\ sys[id].publishedAt > publishedDate

\* the Sidebar with scheduling: a summary of the traversal's universe
buildReferenceInformation(rootId, refs) ==
  LET publishedDate == sys[rootId].publishedAt
      published == isPublished(rootId) /\ ~isUpdated(rootId)
      draftEntries == SelectSeq(refs.entries, isDraft)
      updatedEntries == SelectSeq(refs.entries, isUpdated)
      draftAssets == SelectSeq(refs.assets, isDraft)
      updatedAssets == SelectSeq(refs.assets, isUpdated)
      assetsPublishedAfter ==
        SelectSeq(refs.assets, LAMBDA a : PublishedAfter(a, publishedDate))
      entriesPublishedAfter ==
        SelectSeq(refs.entries, LAMBDA e : PublishedAfter(e, publishedDate))
      isOutOfDate ==
        Len(assetsPublishedAfter) > 0 \/ Len(entriesPublishedAfter) > 0
  IN [published |-> published /\ ~isOutOfDate,
      errors |-> refs.errors,
      errorCount |-> Len(refs.errors),
      entryCount |-> Len(refs.entries),
      draftEntries |-> draftEntries,
      updatedEntries |-> updatedEntries,
      draftEntryCount |-> Len(draftEntries),
      updatedEntryCount |-> Len(updatedEntries),
      assetCount |-> Len(refs.assets),
      draftAssets |-> draftAssets,
      draftAssetCount |-> Len(draftAssets),
      updatedAssets |-> updatedAssets,
      updatedAssetCount |-> Len(updatedAssets)]

\* src/locations/Sidebar.tsx: a summary of the one references response
buildReferenceInformationPlain(rootId, refs) ==
  LET draftEntries == SelectSeq(refs.entries, isDraft)
      updatedEntries == SelectSeq(refs.entries, isUpdated)
      draftAssets == SelectSeq(refs.assets, isDraft)
      updatedAssets == SelectSeq(refs.assets, isUpdated)
  IN [published |-> isPublished(rootId),
      errors |-> refs.errors,
      errorCount |-> Len(refs.errors),
      entryCount |-> Len(refs.entries),
      draftEntries |-> draftEntries,
      updatedEntries |-> updatedEntries,
      draftEntryCount |-> Len(draftEntries),
      updatedEntryCount |-> Len(updatedEntries),
      assetCount |-> Len(refs.assets),
      draftAssets |-> draftAssets,
      draftAssetCount |-> Len(draftAssets),
      updatedAssets |-> updatedAssets,
      updatedAssetCount |-> Len(updatedAssets)]

\* the Sidebar's states information and publishStatus hold nothing at first
NoInformation == <<>>

NoPublishStatus == <<>>

\* the Sidebar renders the publish controls (and not "All up to date")
publishNeeded(info) ==
  LET publishNeedCount ==
        info.draftEntryCount + info.updatedEntryCount
          + info.draftAssetCount + info.updatedAssetCount
  IN info.errorCount = 0
       /\ (~info.published \/ (info.errorCount = 0 /\ publishNeedCount > 0))

\* What the Sidebar renders (lines 580-775; 196-332 in
\* src/locations/Sidebar.tsx): "loading", the "publishing" progress, the
\* "publish" controls with Refresh, "uptodate" (All up to date) with
\* Refresh, or "nothing" (something didn't work) with Refresh.  The branch
\* for the error state comes after the first two; no flow modelled here
\* sets error.
View ==
  IF status \in {"Idle", "Reading"} THEN "loading"
  ELSE IF status = "Publishing" /\ publishStatus # NoPublishStatus
       THEN "publishing"
  ELSE IF information # NoInformation
       THEN IF publishNeeded(information[1]) THEN "publish" ELSE "uptodate"
  ELSE "nothing"

\* a variant that applies the test of the content type to the root, too
StartTraversalChecked ==
  /\ status' = "Reading"
  /\ progress' = [processed |-> 0, total |-> 1, isComplete |-> FALSE]
  /\ entries' = <<>>
  /\ assets' = <<>>
  /\ errors' = <<>>
  /\ processedEntryIds' = {}
  /\ entriesToProcess' =
       IF IsExcluded(ctype[RootId]) THEN <<>> ELSE <<RootId>>
  /\ entriesQueued' = {RootId}
  /\ trackedEntryIds' = {}
  /\ trackedAssetIds' = {}
  /\ processed' = 0
  /\ total' = 1
  /\ currentEntryId' = RootId
  /\ tpc' = "loop"
  /\ fetchCalls' = <<>>
  /\ outcome' = [id \in EntryIds |-> "none"]
  /\ returned' = {}
  /\ returnedAgain' = {}
  /\ reports' = <<>>

(***************************************************************************)
(* retrieveInformation, up to the first loop test of the traversal it      *)
(* starts.                                                                 *)
(***************************************************************************)
StartTraversal ==
  /\ status' = "Reading"
  /\ progress' = [processed |-> 0, total |-> 1, isComplete |-> FALSE]
  /\ entries' = <<>>
  /\ assets' = <<>>
  /\ errors' = <<>>
  /\ processedEntryIds' = {}
  /\ entriesToProcess' = <<RootId>>
  /\ entriesQueued' = {RootId}
  /\ trackedEntryIds' = {}
  /\ trackedAssetIds' = {}
  /\ processed' = 0
  /\ total' = 1
  /\ currentEntryId' = RootId
  /\ tpc' = "loop"
  /\ fetchCalls' = <<>>
  /\ outcome' = [id \in EntryIds |-> "none"]
  /\ returned' = {}
  /\ returnedAgain' = {}
  /\ reports' = <<>>

\* retrieveInformation as the mount effect calls it (lines 529-531)
RetrieveInformation ==
  /\ status = "Idle"
  /\ StartTraversal
  /\ UNCHANGED <<worldVars, pubVars, information>>

\* a variant that reads the head of the queue and leaves it there
ShiftKeepsHead(queue) == queue

\* entriesToProcess.shift()
Shift(queue) == Tail(queue)

AlreadyProcessed(id) == id \in processedEntryIds

\* lines 104-120: the loop test, the dequeue, the visited check and the call
Dequeue ==
  /\ tpc = "loop"
  /\ entriesToProcess # <<>>
  /\ LET id == Head(entriesToProcess) IN
       /\ entriesToProcess' = Shift(entriesToProcess)
       /\ currentEntryId' = id
       /\ IF AlreadyProcessed(id)
          THEN UNCHANGED <<tpc, processedEntryIds, fetchCalls>>
          ELSE /\ processedEntryIds' = processedEntryIds \cup {id}
               /\ fetchCalls' = Append(fetchCalls, id)
               /\ tpc' = "fetch"
  /\ UNCHANGED <<entriesQueued, trackedEntryIds, trackedAssetIds, entries,
                 assets, errors, processed, total>>
  /\ UNCHANGED <<outcome, returned, returnedAgain, reports>>
  /\ UNCHANGED <<worldVars, pubVars, uiVars>>

\* lines 122-188, and 189-209 when the handling raises
FetchResolves ==
  /\ tpc = "fetch"
  /\ \E resp \in Responses :
       LET L == HandleResponse(resp, processed + 1)
           caught == L.threw
           p == IF caught THEN processed + 2 ELSE processed + 1
           reps == IF caught THEN Append(L.reports, Report(p, L.total))
                   ELSE L.reports
       IN /\ entries' = L.entries
          /\ assets' = L.assets
          /\ trackedEntryIds' = L.trackedEntryIds
          /\ trackedAssetIds' = L.trackedAssetIds
          /\ entriesToProcess' = L.entriesToProcess
          /\ entriesQueued' = L.entriesQueued
          /\ total' = L.total
          /\ errors' = IF caught
                       THEN (errors \o resp.errors)
                              \o <<SyntheticError(currentEntryId)>>
                       ELSE errors \o resp.errors
          /\ processed' = p
          /\ reports' = reps
          /\ progress' = updateProgress(Last(reps))
          /\ returned' = returned \cup Included(resp)
          /\ returnedAgain' = returnedAgain \cup KindsOf(returned \cap Included(resp))
  /\ outcome' = [outcome EXCEPT ![currentEntryId] = "resolved"]
  /\ tpc' = "loop"
  /\ UNCHANGED <<processedEntryIds, currentEntryId, fetchCalls, status>>
  /\ UNCHANGED <<worldVars, pubVars, information>>

\* lines 122-130: the call resolves to nothing
FetchResolvesNothing ==
  /\ tpc = "fetch"
  /\ processed' = processed + 1
  /\ reports' = Append(reports, Report(processed + 1, total))
  /\ progress' = updateProgress(Report(processed + 1, total))
  /\ outcome' = [outcome EXCEPT ![currentEntryId] = "nothing"]
  /\ tpc' = "loop"
  /\ UNCHANGED <<entriesToProcess, entriesQueued, processedEntryIds,
                 trackedEntryIds, trackedAssetIds, entries, assets, errors,
                 total, currentEntryId>>
  /\ UNCHANGED <<fetchCalls, returned, returnedAgain>>
  /\ UNCHANGED <<worldVars, pubVars, status, information>>

\* a variant of FetchRejects that leaves the loop on the first rejected call
FetchRejectsAborts ==
  /\ tpc = "fetch"
  /\ errors' = Append(errors, SyntheticError(currentEntryId))
  /\ processed' = processed + 1
  /\ reports' = Append(reports, Report(processed + 1, total))
  /\ progress' = updateProgress(Report(processed + 1, total))
  /\ outcome' = [outcome EXCEPT ![currentEntryId] = "rejected"]
  /\ tpc' = "returned"
  /\ status' = "Complete"
  /\ UNCHANGED <<entriesToProcess, entriesQueued, processedEntryIds,
                 trackedEntryIds, trackedAssetIds, entries, assets, total,
                 currentEntryId>>
  /\ UNCHANGED <<fetchCalls, returned, returnedAgain>>
  /\ UNCHANGED <<worldVars, pubVars, information>>

\* lines 189-209: the call is rejected
FetchRejects ==
  /\ tpc = "fetch"
  /\ errors' = Append(errors, SyntheticError(currentEntryId))
  /\ processed' = processed + 1
  /\ reports' = Append(reports, Report(processed + 1, total))
  /\ progress' = updateProgress(Report(processed + 1, total))
  /\ outcome' = [outcome EXCEPT ![currentEntryId] = "rejected"]
  /\ tpc' = "loop"
  /\ UNCHANGED <<entriesToProcess, entriesQueued, processedEntryIds,
                 trackedEntryIds, trackedAssetIds, entries, assets, total,
                 currentEntryId>>
  /\ UNCHANGED <<fetchCalls, returned, returnedAgain>>
  /\ UNCHANGED <<worldVars, pubVars, status, information>>

\* line 104 (the queue is empty) and 212, then retrieveInformation 518-521.
\* a variant whose classification takes the errors out of the universe
ReturnConsumesErrors ==
  /\ tpc = "loop"
  /\ entriesToProcess = <<>>
  /\ tpc' = "returned"
  /\ status' = "Complete"
  /\ information' =
       <<buildReferenceInformation(RootId,
           [entries |-> entries, assets |-> assets, errors |-> errors])>>
  /\ errors' = <<>>
  /\ UNCHANGED <<entriesToProcess, entriesQueued, processedEntryIds,
                 trackedEntryIds, trackedAssetIds, entries, assets,
                 processed, total, currentEntryId>>
  /\ UNCHANGED <<envVars, worldVars, pubVars, progress>>

\* Nothing in the loop escapes its try block, so the catch clause of
\* retrieveInformation (522-526) is never entered.
Return ==
  /\ tpc = "loop"
  /\ entriesToProcess = <<>>
  /\ tpc' = "returned"
  /\ status' = "Complete"
  /\ information' =
       <<buildReferenceInformation(RootId,
           [entries |-> entries, assets |-> assets, errors |-> errors])>>
  /\ UNCHANGED <<entriesToProcess, entriesQueued, processedEntryIds,
                 trackedEntryIds, trackedAssetIds, entries, assets, errors,
                 processed, total, currentEntryId>>
  /\ UNCHANGED <<envVars, worldVars, pubVars, progress>>

TraversalStep ==
  \/ Dequeue
  \/ FetchResolves
  \/ FetchResolvesNothing
  \/ FetchRejects
  \/ Return

(***************************************************************************)
(* doPublish.  Its two loops (the pending assets, then the pending         *)
(* entries) have the same body: pubQueue is the concatenation of the lists *)
(* they run over.  A step is the settling of the outstanding call, with    *)
(* the code that follows it up to the next call or the return.             *)
(***************************************************************************)
Item(kind, id) == [kind |-> kind, id |-> id]

Items(kind, list) == [i \in 1..Len(list) |-> Item(kind, list[i])]

\* a variant that leaves out the entries of an excluded content type
PublishQueueSkipsExcluded(info) ==
  (Items("Asset", info.draftAssets) \o Items("Asset", info.updatedAssets))
    \o SelectSeq(Items("Entry", info.draftEntries)
                   \o Items("Entry", info.updatedEntries),
                 LAMBDA item : ~IsExcluded(ctype[item.id]))

\* a variant that runs the loop over the entries first
PublishQueueEntriesFirst(info) ==
  (Items("Entry", info.draftEntries) \o Items("Entry", info.updatedEntries))
    \o (Items("Asset", info.draftAssets) \o Items("Asset", info.updatedAssets))

PublishQueue(info) ==
  (Items("Asset", info.draftAssets) \o Items("Asset", info.updatedAssets))
    \o (Items("Entry", info.draftEntries) \o Items("Entry", info.updatedEntries))

isScheduled == scheduledTime # ""

\* a variant that publishes the root at once in a scheduled run, too
CallRootAtOnce(time, target, id) ==
  [api |-> IF time # "" /\ target # "Root" THEN "schedule" ELSE "publish",
   target |-> target, id |-> id]

\* the call that processes target ("Asset", "Entry" or "Root") id:
\* scheduledActions.create when a time is given, else publish
Call(time, target, id) ==
  [api |-> IF time # "" THEN "schedule" ELSE "publish",
   target |-> target, id |-> id]

\* a variant whose total counts the step for the root, too
SnapshotWithRoot(t, p, e, time, erroredNow, idsNow) ==
  [total |-> t + 1, published |-> p, errors |-> e, isScheduled |-> time # "",
   errored |-> Len(erroredNow), scheduledActionIds |-> Len(idsNow)]

\* a variant whose total is the number of items still to be published
SnapshotRemaining(t, p, e, time, erroredNow, idsNow) ==
  [total |-> t - p, published |-> p, errors |-> e, isScheduled |-> time # "",
   errored |-> Len(erroredNow), scheduledActionIds |-> Len(idsNow)]

\* the numbers of a status handed to setStatus, and the lengths its errored
\* and scheduledActionIds arrays have at that moment
Snapshot(t, p, e, time, erroredNow, idsNow) ==
  [total |-> t, published |-> p, errors |-> e, isScheduled |-> time # "",
   errored |-> Len(erroredNow), scheduledActionIds |-> Len(idsNow)]

\* a variant that processes the root whatever the dependencies did
RootStepAlways(errs) == TRUE

\* line 453 (139 in src/locations/Sidebar.tsx): errors === 0
RootStepDue(errs) == errs = 0

\* a variant that leaves the loop at the first failure
MoreItemsUnlessFailed(index, queue, errs) == index < Len(queue) /\ errs = 0

\* for (... of [...]): the loop goes on while the list has a next item,
\* whatever the count of errors
MoreItems(index, queue, errs) == index < Len(queue)

\* a variant that records an id for a call that failed, too
RecordActionAlways(ids, id, ok, time) ==
  IF time # "" THEN Append(ids, id) ELSE ids

\* lines 336-363: scheduledActionIds after the call for id settled; the
\* action a resolved scheduledActions.create returns carries its sys.id
RecordAction(ids, id, ok, time) ==
  IF ok /\ time # "" THEN Append(ids, id) ELSE ids

\* a variant that answers true whatever the count of errors
ReturnValueTrue(errs) == "true"

\* line 475 (142 in src/locations/Sidebar.tsx): return errors === 0
ReturnValue(errs) == IF errs = 0 THEN "true" ELSE "false"

\* a variant in which the publication of the root leaves it as it was
PublishDependencyOnly(id) ==
  IF id = RootId THEN sys
  ELSE [sys EXCEPT ![id] = [state |-> "published", publishedAt |-> clock]]

\* the repository after a publish call for id succeeded
Publish(id) == [sys EXCEPT ![id] = [state |-> "published", publishedAt |-> clock]]

\* a variant that issues the first item's call and the root's together
BeginPublishAllAtOnce(time) ==
  LET queue == PublishQueue(information[1])
      first == Snapshot(Len(queue), 0, 0, time, <<>>, <<>>)
  IN /\ status' = "Publishing"
     /\ scheduledTime' = time
     /\ pubQueue' = queue
     /\ pubIndex' = 1
     /\ pubTotal' = Len(queue)
     /\ pubPublished' = 0
     /\ pubErrors' = 0
     /\ errored' = <<>>
     /\ scheduledActionIds' = <<>>
     /\ pubResult' = "none"
     /\ settled' = <<>>
     /\ snapshots' = IF impl = "scheduling" THEN <<first>> ELSE <<>>
     /\ publishStatus' = IF impl = "scheduling" THEN <<first>> ELSE publishStatus
     /\ IF queue # <<>>
        THEN /\ ppc' = "item"
             /\ calls' = <<Call(time, queue[1].kind, queue[1].id),
                           Call(time, "Root", RootId)>>
        ELSE /\ ppc' = "root"
             /\ calls' = <<Call(time, "Root", RootId)>>
     /\ UNCHANGED <<worldVars, travVars, envVars, impl, progress, information>>

\* lines 297-321, up to the first call (102-116 in src/locations/Sidebar.tsx,
\* which sets no status before the first item is done)
BeginPublish(time) ==
  LET queue == PublishQueue(information[1])
      first == Snapshot(Len(queue), 0, 0, time, <<>>, <<>>)
  IN /\ status' = "Publishing"
     /\ scheduledTime' = time
     /\ pubQueue' = queue
     /\ pubIndex' = 1
     /\ pubTotal' = Len(queue)
     /\ pubPublished' = 0
     /\ pubErrors' = 0
     /\ errored' = <<>>
     /\ scheduledActionIds' = <<>>
     /\ pubResult' = "none"
     /\ settled' = <<>>
     /\ snapshots' = IF impl = "scheduling" THEN <<first>> ELSE <<>>
     /\ publishStatus' = IF impl = "scheduling" THEN <<first>> ELSE publishStatus
     /\ IF queue # <<>>
        THEN /\ ppc' = "item"
             /\ calls' = <<Call(time, queue[1].kind, queue[1].id)>>
        ELSE /\ ppc' = "root"
             /\ calls' = <<Call(time, "Root", RootId)>>
     /\ UNCHANGED <<worldVars, travVars, envVars, impl, progress, information>>

\* handlePublish: the Publish button, rendered when publishNeeded
HandlePublish ==
  /\ status = "Complete"
  /\ information # NoInformation
  /\ publishNeeded(information[1])
  /\ BeginPublish("")

\* handleScheduledPublish: the Schedule Publish button; scheduledDate is set
HandleScheduledPublish ==
  /\ impl = "scheduling"
  /\ status = "Complete"
  /\ information # NoInformation
  /\ publishNeeded(information[1])
  /\ BeginPublish("T")

\* lines 391-450 (117-138 in src/locations/Sidebar.tsx): the call for the
\* item settles; then the next item's call, or the root's (452-468), or the
\* return (475).  A scheduled action that was created carries an id (361).
ItemSettles ==
  /\ ppc = "item"
  /\ \E ok \in BOOLEAN :
       LET item == pubQueue[pubIndex]
           p == IF ok THEN pubPublished + 1 ELSE pubPublished
           e == IF ok THEN pubErrors ELSE pubErrors + 1
           failed == IF ok THEN errored ELSE Append(errored, item)
           ids == RecordAction(scheduledActionIds, item.id, ok, scheduledTime)
           snap == Snapshot(pubTotal, p, e, scheduledTime, failed, ids)
       IN /\ pubPublished' = p
          /\ pubErrors' = e
          /\ errored' = failed
          /\ scheduledActionIds' = ids
          /\ settled' = Append(settled, ok)
          /\ snapshots' = Append(snapshots, snap)
          /\ publishStatus' = <<snap>>
          /\ IF ok /\ ~isScheduled
             THEN sys' = Publish(item.id) /\ clock' = clock + 1
             ELSE UNCHANGED <<sys, clock>>
          /\ IF MoreItems(pubIndex, pubQueue, e)
             THEN /\ pubIndex' = pubIndex + 1
                  /\ ppc' = "item"
                  /\ calls' = Append(calls,
                       Call(scheduledTime, pubQueue[pubIndex + 1].kind,
                            pubQueue[pubIndex + 1].id))
                  /\ pubResult' = pubResult
             ELSE IF RootStepDue(e)
             THEN /\ pubIndex' = pubIndex + 1
                  /\ ppc' = "root"
                  /\ calls' = Append(calls, Call(scheduledTime, "Root", RootId))
                  /\ pubResult' = pubResult
             ELSE /\ pubIndex' = pubIndex + 1
                  /\ ppc' = "returned"
                  /\ calls' = calls
                  /\ pubResult' = ReturnValue(e)
  /\ UNCHANGED <<ctype, noFields, travVars, envVars, impl, scheduledTime,
                 pubQueue, pubTotal, uiVars>>

\* lines 454-475 and handlePublish's then: the root's call succeeds, doPublish
\* returns true and the Sidebar reads the references again
RootSucceeds ==
  /\ ppc = "root"
  /\ ppc' = "returned"
  /\ pubResult' = ReturnValue(pubErrors)
  /\ settled' = Append(settled, TRUE)
  /\ scheduledActionIds' =
       RecordAction(scheduledActionIds, RootId, TRUE, scheduledTime)
  /\ IF isScheduled THEN UNCHANGED <<sys, clock>>
     ELSE sys' = Publish(RootId) /\ clock' = clock + 1
  /\ IF pubErrors = 0
     THEN IF impl = "scheduling"
          THEN StartTraversal
          ELSE status' = "Reading" /\ UNCHANGED <<travVars, envVars, progress>>
     ELSE UNCHANGED <<travVars, envVars, status, progress>>
  /\ UNCHANGED <<ctype, noFields, impl, scheduledTime, pubQueue, pubIndex,
                 pubTotal, pubPublished, pubErrors, errored, calls, snapshots,
                 publishStatus, information>>

\* a variant in which a failure of the root marks every dependency failed
RootFailsRetracts ==
  /\ ppc = "root"
  /\ pubErrors' = pubErrors + 1
  /\ ppc' = "returned"
  /\ pubResult' = "false"
  /\ errored' = pubQueue
  /\ pubPublished' = 0
  /\ settled' = Append(settled, FALSE)
  /\ UNCHANGED <<worldVars, travVars, envVars, impl, scheduledTime, pubQueue,
                 pubIndex, pubTotal, scheduledActionIds, calls, snapshots,
                 publishStatus, uiVars>>

\* lines 469-475: the root's call fails, errors is incremented and doPublish
\* returns false.  In src/locations/Sidebar.tsx (140) nothing catches the
\* failure: doPublish's promise is rejected.
RootFails ==
  /\ ppc = "root"
  /\ IF impl = "scheduling"
     THEN /\ pubErrors' = pubErrors + 1
          /\ ppc' = "returned"
          /\ pubResult' = ReturnValue(pubErrors + 1)
     ELSE /\ pubErrors' = pubErrors
          /\ ppc' = "threw"
          /\ pubResult' = pubResult
  /\ settled' = Append(settled, FALSE)
  /\ UNCHANGED <<worldVars, travVars, envVars, impl, scheduledTime, pubQueue,
                 pubIndex, pubTotal, pubPublished, errored, scheduledActionIds,
                 calls, snapshots, publishStatus, uiVars>>

PublishStep ==
  \/ ItemSettles
  \/ RootSucceeds
  \/ RootFails

(***************************************************************************)
(* The Sidebar as mounted, in a repository with at most MaxMalformed       *)
(* records without field values, all of them published.                    *)
(***************************************************************************)
NoRun ==
  /\ ppc = "idle"
  /\ scheduledTime = ""
  /\ pubQueue = <<>>
  /\ pubIndex = 1
  /\ pubTotal = 0
  /\ pubPublished = 0
  /\ pubErrors = 0
  /\ errored = <<>>
  /\ scheduledActionIds = <<>>
  /\ pubResult = "none"
  /\ calls = <<>>
  /\ settled = <<>>
  /\ snapshots = <<>>
  /\ publishStatus = NoPublishStatus

Init ==
  /\ ctype \in [EntryIds -> ContentTypes]
  /\ noFields \in {S \in SUBSET (EntryIds \cup AssetIds) :
                     Cardinality(S) <= MaxMalformed}
  /\ sys = [id \in EntryIds \cup AssetIds |->
              [state |-> "published", publishedAt |-> 1]]
  /\ clock = MaxTime + 1
  /\ impl = "scheduling"
  /\ NoRun
  /\ status = "Idle"
  /\ progress = [processed |-> 0, total |-> 0, isComplete |-> FALSE]
  /\ information = NoInformation
  /\ tpc = "idle"
  /\ entriesToProcess = <<>>
  /\ entriesQueued = {}
  /\ processedEntryIds = {}
  /\ trackedEntryIds = {}
  /\ trackedAssetIds = {}
  /\ entries = <<>>
  /\ assets = <<>>
  /\ errors = <<>>
  /\ processed = 0
  /\ total = 0
  /\ currentEntryId = RootId
  /\ fetchCalls = <<>>
  /\ outcome = [id \in EntryIds |-> "none"]
  /\ returned = {}
  /\ returnedAgain = {}
  /\ reports = <<>>

Next ==
  \/ RetrieveInformation
  \/ TraversalStep

Spec == Init /\ [][Next]_vars

(***************************************************************************)
(* The Sidebar showing the summary of a universe it has read: the entries  *)
(* A and B, with or without the root itself (which a cycle brings in), and *)
(* the assets X and Y, each record in any lifecycle state.  The published  *)
(* and updated dependencies were published at the same time t, the root,  *)
(* unless a draft, at time 1.                                              *)
(***************************************************************************)
PublishedAtOf(id, state, t) ==
  IF state = "draft" THEN 0 ELSE IF id = RootId THEN 1 ELSE t

PubInit ==
  /\ ctype = [id \in EntryIds |-> "component"]
  /\ noFields = {}
  /\ \E states \in [EntryIds \cup AssetIds -> Lifecycles], t \in 1..MaxTime :
       sys = [id \in EntryIds \cup AssetIds |->
                [state |-> states[id],
                 publishedAt |-> PublishedAtOf(id, states[id], t)]]
  /\ clock = MaxTime + 1
  /\ impl \in {"scheduling", "plain"}
  /\ NoRun
  /\ entries \in {<<"A", "B">>, <<"A", "B", RootId>>}
  /\ assets = <<"X", "Y">>
  /\ errors = <<>>
  /\ status = "Complete"
  /\ information =
       <<IF impl = "scheduling"
         THEN buildReferenceInformation(RootId,
                [entries |-> entries, assets |-> assets, errors |-> errors])
         ELSE buildReferenceInformationPlain(RootId,
                [entries |-> entries, assets |-> assets, errors |-> errors])>>
  /\ tpc = "returned"
  /\ entriesToProcess = <<>>
  /\ entriesQueued = {RootId, "A", "B"}
  /\ processedEntryIds = {RootId, "A", "B"}
  /\ trackedEntryIds = Range(entries)
  /\ trackedAssetIds = Range(assets)
  /\ processed = 3
  /\ total = 3
  /\ progress = [processed |-> 3, total |-> 3, isComplete |-> TRUE]
  /\ currentEntryId = "B"
  /\ fetchCalls = <<RootId, "A", "B">>
  /\ outcome = [id \in EntryIds |-> "resolved"]
  /\ returned = Range(entries) \cup Range(assets)
  /\ returnedAgain = {}
  /\ reports = <<Report(1, 1), Report(1, 2), Report(1, 3), Report(2, 3),
                 Report(3, 3)>>

(***************************************************************************)
(* The traversal about to return a universe (the entries A and B, with or  *)
(* without the root, the assets X and Y, with or without a collection      *)
(* error) in a repository whose records are each in any lifecycle state,   *)
(* the published and the updated ones published at any time up to MaxTime. *)
(***************************************************************************)
SysStates ==
  [state : {"draft"}, publishedAt : {0}]
    \cup [state : {"updated", "published"}, publishedAt : 1..MaxTime]

ClassifyInit ==
  /\ ctype = [id \in EntryIds |-> "component"]
  /\ noFields = {}
  /\ sys \in [EntryIds \cup AssetIds -> SysStates]
  /\ clock = MaxTime + 1
  /\ impl = "scheduling"
  /\ NoRun
  /\ entries \in {<<"A", "B">>, <<"A", "B", RootId>>}
  /\ assets = <<"X", "Y">>
  /\ errors \in {<<>>, <<LinkError>>}
  /\ status = "Reading"
  /\ information = NoInformation
  /\ tpc = "loop"
  /\ entriesToProcess = <<>>
  /\ entriesQueued = {RootId, "A", "B"}
  /\ processedEntryIds = {RootId, "A", "B"}
  /\ trackedEntryIds = Range(entries)
  /\ trackedAssetIds = Range(assets)
  /\ processed = 3
  /\ total = 3
  /\ progress = [processed |-> 3, total |-> 3, isComplete |-> TRUE]
  /\ currentEntryId = "B"
  /\ fetchCalls = <<RootId, "A", "B">>
  /\ outcome = [id \in EntryIds |-> "resolved"]
  /\ returned = Range(entries) \cup Range(assets)
  /\ returnedAgain = {}
  /\ reports = <<Report(1, 1), Report(1, 2), Report(1, 3), Report(2, 3),
                 Report(3, 3)>>

ClassifyNext == Return

ClassifySpec == ClassifyInit /\ [][ClassifyNext]_vars

(***************************************************************************)
(* The Sidebar as mounted in a repository whose entries are of the content *)
(* types the README names as skipped by default.                           *)
(***************************************************************************)
README_EXCLUDED_CONTENT_TYPES ==
  {"article", "page", "navigation", "siteSettings", "redirects"}

DocContentTypes == {"page", "siteSettings"}

DocInit ==
  /\ ctype \in [EntryIds -> DocContentTypes]
  /\ noFields = {}
  /\ sys = [id \in EntryIds \cup AssetIds |->
              [state |-> "published", publishedAt |-> 1]]
  /\ clock = MaxTime + 1
  /\ impl = "scheduling"
  /\ NoRun
  /\ status = "Idle"
  /\ progress = [processed |-> 0, total |-> 0, isComplete |-> FALSE]
  /\ information = NoInformation
  /\ tpc = "idle"
  /\ entriesToProcess = <<>>
  /\ entriesQueued = {}
  /\ processedEntryIds = {}
  /\ trackedEntryIds = {}
  /\ trackedAssetIds = {}
  /\ entries = <<>>
  /\ assets = <<>>
  /\ errors = <<>>
  /\ processed = 0
  /\ total = 0
  /\ currentEntryId = RootId
  /\ fetchCalls = <<>>
  /\ outcome = [id \in EntryIds |-> "none"]
  /\ returned = {}
  /\ returnedAgain = {}
  /\ reports = <<>>

DocSpec == DocInit /\ [][Next]_vars

PubNext ==
  \/ HandlePublish
  \/ HandleScheduledPublish
  \/ PublishStep

PubSpec == PubInit /\ [][PubNext]_vars

(***************************************************************************)
(* The scheduling Sidebar from its mount on, with its three buttons, in a  *)
(* repository where the entry A is a draft and every other record is       *)
(* published: the traversals, the publish runs and the traversal that      *)
(* follows a successful run.  B is the only entry whose references are     *)
(* followed.                                                               *)
(***************************************************************************)
\* the Refresh button is rendered: every view but the loading and the
\* publishing one has it (lines 738-745, 757-759, 770-772)
RefreshOffered == View \in {"publish", "uptodate", "nothing"}

\* handleRefresh (576-578): the Refresh button
HandleRefresh ==
  /\ RefreshOffered
  /\ StartTraversal
  /\ UNCHANGED <<worldVars, pubVars, information>>

SidebarInit ==
  /\ ctype = [id \in EntryIds |-> IF id = "B" THEN "component" ELSE "page"]
  /\ noFields = {}
  /\ sys = [id \in EntryIds \cup AssetIds |->
              IF id = "A" THEN [state |-> "draft", publishedAt |-> 0]
              ELSE [state |-> "published", publishedAt |-> 1]]
  /\ clock = MaxTime + 1
  /\ impl = "scheduling"
  /\ NoRun
  /\ status = "Idle"
  /\ progress = [processed |-> 0, total |-> 0, isComplete |-> FALSE]
  /\ information = NoInformation
  /\ tpc = "idle"
  /\ entriesToProcess = <<>>
  /\ entriesQueued = {}
  /\ processedEntryIds = {}
  /\ trackedEntryIds = {}
  /\ trackedAssetIds = {}
  /\ entries = <<>>
  /\ assets = <<>>
  /\ errors = <<>>
  /\ processed = 0
  /\ total = 0
  /\ currentEntryId = RootId
  /\ fetchCalls = <<>>
  /\ outcome = [id \in EntryIds |-> "none"]
  /\ returned = {}
  /\ returnedAgain = {}
  /\ reports = <<>>

SidebarNext ==
  \/ RetrieveInformation
  \/ HandleRefresh
  \/ HandlePublish
  \/ HandleScheduledPublish
  \/ TraversalStep
  \/ PublishStep

SidebarSpec == SidebarInit /\ [][SidebarNext]_vars

\* the calls of a traversal and of a publish run settle: each step of
\* theirs that can be taken is taken; the user may leave the buttons alone
FairSidebarSpec ==
  SidebarSpec /\ WF_vars(TraversalStep) /\ WF_vars(PublishStep)

\* The traversal's steps are taken as long as one is possible: the loop runs
\* on when a call settles, and every call settles.
FairSpec == Spec /\ WF_vars(TraversalStep)

(***************************************************************************)
(* Properties of the traversal.                                            *)
(***************************************************************************)
Running == tpc \in {"loop", "fetch"}

Returned == tpc = "returned"

Fetched == Range(fetchCalls)

SyntheticErrorsFor(id) ==
  {i \in 1..Len(errors) : errors[i] = SyntheticError(id)}

\* C1: whatever the calls return (self-references and cycles included) and
\* whichever calls are rejected, a started traversal empties its queue and
\* returns.
C1_TraversalTerminates ==
  Running ~> (Returned /\ entriesToProcess = <<>>)

\* a traversal returned after three calls, one of them rejected, in which the
\* root was returned by a call (a cycle) and an entry by two calls
C1_Witness ==
  /\ Returned
  /\ Len(fetchCalls) = 3
  /\ RootId \in returned
  /\ "Entry" \in returnedAgain
  /\ \E id \in EntryIds : outcome[id] = "rejected"

\* C2: no references call is issued twice for an entry id; the queue never
\* holds an id twice nor an id already visited; and when the traversal has
\* returned, a call was issued for the root and for every id ever queued.
C2_EachIdFetchedOnce ==
  /\ NoDuplicates(fetchCalls)
  /\ NoDuplicates(entriesToProcess)
  /\ Range(entriesToProcess) \cap processedEntryIds = {}
  /\ Range(entriesToProcess) \subseteq entriesQueued
  /\ Returned => (Fetched = entriesQueued /\ RootId \in Fetched)

\* the root and another entry were returned again after they were queued
C2_Witness ==
  /\ Returned
  /\ RootId \in returned
  /\ "Entry" \in returnedAgain
  /\ Len(fetchCalls) >= 2

\* C3: no entry id occurs twice in allReferences.entries and no asset id
\* twice in allReferences.assets, in any state of a traversal.
C3_NoDuplicateRecords ==
  /\ NoDuplicates(entries)
  /\ NoDuplicates(assets)

\* an asset and an entry were each returned by more than one call
C3_Witness ==
  /\ Returned
  /\ returnedAgain = {"Entry", "Asset"}
  /\ Len(entries) >= 1
  /\ Len(assets) >= 1

\* C4: an entry of an excluded content type that a call returned is in the
\* entry set and was never queued and never fetched; the universe holds only
\* records that some call returned (what an entry that was not fetched
\* references is not among them), and once the traversal has returned it
\* holds all of them.  Stated of the entries other than the root, which
\* seeds the queue.
C4_ExcludedIncludedNotExpanded ==
  /\ \A e \in (EntryIds \ {RootId}) \cap returned :
       IsExcluded(ctype[e]) =>
         /\ e \in Range(entries)
         /\ e \notin entriesQueued
         /\ e \notin Fetched
  /\ Range(entries) \cup Range(assets) \subseteq returned
  /\ Returned => returned \subseteq Range(entries) \cup Range(assets)

\* C5: in the sequence of reports of a traversal, processed and total never
\* decrease and processed never exceeds total.
C5_ProgressMonotone ==
  \A i \in 1..Len(reports) :
    /\ reports[i].processed <= reports[i].total
    /\ i > 1 => /\ reports[i - 1].processed <= reports[i].processed
                /\ reports[i - 1].total <= reports[i].total

\* C6: a report with processed = total is the last report of the traversal
\* (no id is queued after it), and the last report of a returned traversal
\* has processed = total, so that isComplete is true exactly then.  Stated
\* of the repositories in which every record has field values, where no
\* handling of a response raises.
C6_CompleteOnlyAtCompletion ==
  noFields = {} =>
  /\ \A i \in 1..Len(reports) :
       reports[i].processed = reports[i].total =>
         /\ i = Len(reports)
         /\ entriesToProcess = <<>>
  /\ (Returned /\ reports # <<>>) =>
       /\ Last(reports).processed = Last(reports).total
       /\ progress.isComplete

\* C7: a rejected call for an entry other than the root appends exactly the
\* synthetic error of that entry and changes nothing else that was
\* collected or queued, and the loop goes on; the errors hold exactly one
\* synthetic error for such an entry, and a returned traversal has fetched
\* every id that was queued.
C7_FailureIsRecordedAndSurvived ==
  /\ [][(tpc = "fetch" /\ currentEntryId # RootId
           /\ outcome'[currentEntryId] = "rejected") =>
          /\ errors' = Append(errors, SyntheticError(currentEntryId))
          /\ entries' = entries
          /\ assets' = assets
          /\ entriesToProcess' = entriesToProcess
          /\ entriesQueued' = entriesQueued
          /\ tpc' = "loop"]_vars
  /\ [](\A id \in EntryIds \ {RootId} :
          outcome[id] = "rejected" => Cardinality(SyntheticErrorsFor(id)) = 1)
  /\ [](Returned => Fetched = entriesQueued)

\* the call for A was rejected when B was still queued and records had been
\* collected; B was fetched afterwards
C7_Witness ==
  /\ Returned
  /\ fetchCalls = <<RootId, "A", "B">>
  /\ outcome["A"] = "rejected"
  /\ outcome["B"] = "resolved"
  /\ Len(entries) >= 2

\* C8: when the references call for the root is rejected or resolves to
\* nothing, the traversal returns no universe and the Sidebar does not
\* become Complete.
C8_RootFailurePropagates ==
  outcome[RootId] \in {"rejected", "nothing"} =>
    /\ ~Returned
    /\ status # "Complete"

(***************************************************************************)
(* Properties of a publish run.                                            *)
(***************************************************************************)
Pending(kind) == {i \in 1..Len(pubQueue) : pubQueue[i].kind = kind}

\* the place of a call in doPublish: the draft assets, the updated assets,
\* the draft entries, the updated entries, the root step
Stage(call) ==
  LET info == information[1]
  IN IF call.target = "Root" THEN 5
     ELSE IF call.target = "Asset"
          THEN IF call.id \in Range(info.draftAssets) THEN 1 ELSE 2
          ELSE IF call.id \in Range(info.draftEntries) THEN 3 ELSE 4

RootCalls == {i \in 1..Len(calls) : calls[i].target = "Root"}

RunOver == ppc \in {"returned", "threw"}

\* C9: in a publish run the calls for the draft assets come first, then
\* those for the updated assets, the draft entries and the updated entries;
\* an entry's call is issued only when every pending asset has had its call,
\* and the call of the root step only when every pending asset and entry has
\* had its call, and nothing is called after it.  All the calls of a run are
\* of the run's kind (publish, or schedule when a time was given), whether
\* the calls before them succeeded or failed.
C9_AssetsThenEntriesThenRoot ==
  /\ \A i, j \in 1..Len(calls) : i < j => Stage(calls[i]) <= Stage(calls[j])
  /\ \A i \in 1..Len(calls) :
       /\ calls[i].api = IF isScheduled THEN "schedule" ELSE "publish"
       /\ calls[i].target = "Entry" => i > Cardinality(Pending("Asset"))
       /\ calls[i].target = "Root" => i = Len(pubQueue) + 1 /\ i = Len(calls)
       /\ i <= Len(pubQueue) =>
            calls[i].target = pubQueue[i].kind /\ calls[i].id = pubQueue[i].id

\* C9's case: a scheduled run that had a draft and an updated asset and two
\* entries to process, called the root last, and saw that call fail
C9_Witness ==
  /\ isScheduled
  /\ ppc = "returned"
  /\ Len(calls) = 5
  /\ Last(calls).target = "Root"
  /\ pubResult = "false"
  /\ information[1].draftAssetCount = 1
  /\ information[1].updatedAssetCount = 1

\* C10: the root step issues at most one call in a run.  Once a dependency's
\* call has failed, the root step's call is never issued and doPublish, when
\* it returns, returns false; a run that ends without a failed dependency
\* has issued the root step's call exactly once.
C10_FailureBlocksRoot ==
  /\ Cardinality(RootCalls) <= 1
  /\ errored # <<>> =>
       /\ RootCalls = {}
       /\ ppc # "root"
       /\ RunOver => ppc = "returned" /\ pubResult = "false"
  /\ (RunOver /\ errored = <<>>) => Cardinality(RootCalls) = 1

\* C10's case: a run over several dependencies, one of which was published
\* and one of which failed, has returned
C10_Witness ==
  /\ ppc = "returned"
  /\ Len(pubQueue) >= 2
  /\ Len(errored) = 1
  /\ errored[1].kind = "Entry"
  /\ pubPublished >= 1
  /\ pubResult = "false"
  /\ Len(calls) = Len(pubQueue)

\* every call issued so far has settled, and resolved
AllSucceeded == Len(settled) = Len(calls) /\ \A i \in 1..Len(settled) : settled[i]

\* the root step's call was issued and rejected
RootFailed == RootCalls # {} /\ Len(settled) = Len(calls) /\ ~Last(settled)

\* C11: when doPublish has returned, it returned true if and only if the
\* call of every pending item resolved and the root step's call was issued
\* and resolved, and false otherwise; in the doPublish with scheduling a
\* run in which only the root step's call is rejected returns false.
C11_TrueIffAllSucceeded ==
  /\ ppc = "returned" =>
       /\ pubResult \in {"true", "false"}
       /\ pubResult = "true" <=>
            (RootCalls # {} /\ Len(calls) = Len(pubQueue) + 1 /\ AllSucceeded)
  /\ (impl = "scheduling" /\ RootFailed) =>
       ppc = "returned" /\ pubResult = "false"

\* C11's case: every one of several dependencies was processed with
\* success, the root step's call was rejected, and doPublish has returned
C11_Witness ==
  /\ impl = "scheduling"
  /\ ppc = "returned"
  /\ Len(pubQueue) >= 2
  /\ pubPublished = Len(pubQueue)
  /\ RootFailed
  /\ pubResult = "false"

\* the pending records of a kind, as the summary lists them
PendingIds(kind) ==
  LET info == information[1]
  IN IF kind = "Asset"
     THEN Range(info.draftAssets) \cup Range(info.updatedAssets)
     ELSE Range(info.draftEntries) \cup Range(info.updatedEntries)

\* the calls the two loops issued for the record id of a kind
Attempts(kind, id) ==
  {i \in 1..Len(calls) : calls[i].target = kind /\ calls[i].id = id}

\* C12: the two loops issue at most one call for each pending asset and each
\* pending entry of the summary and none for any other record, and when the
\* run is over each of them has had exactly one, whatever the calls before
\* it did.  When an item's call settles, a success adds one to published
\* and leaves errors and errored alone; a failure adds one to errors,
\* appends the item to errored and leaves published alone.
C12_EveryItemAttemptedOnce ==
  /\ [](\A i \in 1..Len(calls) :
          calls[i].target # "Root" => calls[i].id \in PendingIds(calls[i].target))
  /\ [](\A kind \in {"Asset", "Entry"} : \A id \in PendingIds(kind) :
          LET n == Cardinality(Attempts(kind, id))
          IN n <= 1 /\ (RunOver => n = 1))
  /\ [][(ppc = "item" /\ settled' # settled) =>
          LET c == calls[Len(settled')]
          IN IF Last(settled')
             THEN /\ pubPublished' = pubPublished + 1
                  /\ pubErrors' = pubErrors
                  /\ errored' = errored
             ELSE /\ pubPublished' = pubPublished
                  /\ pubErrors' = pubErrors + 1
                  /\ errored' = Append(errored, Item(c.target, c.id))]_vars

\* C12's case: the first of at least three items failed, the others were
\* attempted all the same and one of them was published; the run is over
C12_Witness ==
  /\ ppc = "returned"
  /\ Len(pubQueue) >= 3
  /\ Len(calls) = Len(pubQueue)
  /\ ~settled[1]
  /\ errored[1] = pubQueue[1]
  /\ pubPublished >= 1
  /\ pubPublished + pubErrors = pubTotal

\* C13: doPublish never ends by throwing (its promise is never rejected),
\* in the Sidebar with scheduling and in src/locations/Sidebar.tsx: a call
\* that failed shows in the counters and in the value returned only.
C13_NeverThrows ==
  /\ ppc # "threw"
  /\ (Len(settled) = Len(calls) /\ \E i \in 1..Len(settled) : ~settled[i]) =>
       (pubErrors > 0 /\ (RunOver => pubResult = "false"))

\* the number of dependency calls that have settled
ItemsDone ==
  IF Len(settled) <= Len(pubQueue) THEN Len(settled) ELSE Len(pubQueue)

\* the statuses set before the first item: one in the Sidebar with
\* scheduling (lines 312-321), none in src/locations/Sidebar.tsx
InitialSnapshots == IF impl = "scheduling" /\ ppc # "idle" THEN 1 ELSE 0

\* C14: one status is handed to setStatus after each dependency item,
\* whether its call succeeded or failed, and it counts that item; from one
\* status of a run to the next, published, errors and the length of errored
\* never decrease, and total is the same in all of them.
C14_SnapshotsMonotone ==
  /\ Len(snapshots) = InitialSnapshots + ItemsDone
  /\ \A i \in 1..Len(snapshots) :
       /\ snapshots[i].total = pubTotal
       /\ snapshots[i].published + snapshots[i].errors = i - InitialSnapshots
       /\ snapshots[i].errored = snapshots[i].errors
       /\ i > 1 =>
            /\ snapshots[i - 1].published <= snapshots[i].published
            /\ snapshots[i - 1].errors <= snapshots[i].errors
            /\ snapshots[i - 1].errored <= snapshots[i].errored

\* C14's case: a run over three items or more, some published and some
\* failed, has handed over a status for each of them after the initial one
C14_Witness ==
  /\ impl = "scheduling"
  /\ Len(pubQueue) >= 3
  /\ Len(snapshots) = Len(pubQueue) + 1
  /\ Last(snapshots).published >= 1
  /\ Last(snapshots).errors >= 1
  /\ snapshots[2].errors = 1

\* C15: when doPublish has returned, the last status it handed to setStatus
\* has errors = 0 if and only if it returned true: a failure of the root
\* step shows in the last status.
C15_LastSnapshotAuthoritative ==
  (ppc = "returned" /\ snapshots # <<>>) =>
    (Last(snapshots).errors = 0 <=> pubResult = "true")

\* C16: the step in which the root step's call is rejected adds nothing to
\* errored, leaves published and scheduledActionIds as they are, issues no
\* call and changes no record of the repository.  After it, errored is
\* empty, published counts every dependency, the root step's call is the
\* last call of the run, and in an immediate run every dependency is in the
\* published state.
C16_RootFailureLeavesDependencies ==
  /\ [][(ppc = "root" /\ settled' = Append(settled, FALSE)) =>
          /\ errored' = errored
          /\ pubPublished' = pubPublished
          /\ scheduledActionIds' = scheduledActionIds
          /\ calls' = calls
          /\ sys' = sys]_vars
  /\ [](RootFailed =>
          /\ errored = <<>>
          /\ pubPublished = pubTotal
          /\ Last(calls).target = "Root"
          /\ ~isScheduled =>
               \A i \in 1..Len(pubQueue) : isPublished(pubQueue[i].id))

\* C16's case: two dependencies or more were published at once, then the
\* root step's call was rejected
C16_Witness ==
  /\ impl = "scheduling"
  /\ ~isScheduled
  /\ RootFailed
  /\ Len(pubQueue) >= 2
  /\ pubPublished = Len(pubQueue)
  /\ pubErrors = 1

\* C17: in a run that was given a scheduled time every call, the root
\* step's included, creates a scheduled action, none publishes, and no
\* record of the repository changes its state during the run; in a run
\* that was given none every call publishes, no scheduled action is created
\* and scheduledActionIds stays empty.
C17_ScheduledRunPublishesNothing ==
  /\ [](isScheduled =>
          \A i \in 1..Len(calls) : calls[i].api = "schedule")
  /\ [](~isScheduled =>
          /\ \A i \in 1..Len(calls) : calls[i].api = "publish"
          /\ scheduledActionIds = <<>>)
  /\ [][(isScheduled /\ ppc \in {"item", "root"}) => sys' = sys]_vars

\* C17's case: a scheduled run over two dependencies or more has scheduled
\* them and the root with success; its first item is still a draft
C17_Witness ==
  /\ isScheduled
  /\ ppc = "returned"
  /\ pubResult = "true"
  /\ Len(pubQueue) >= 2
  /\ Len(calls) = Len(pubQueue) + 1
  /\ Last(calls) = [api |-> "schedule", target |-> "Root", id |-> RootId]
  /\ isDraft(pubQueue[1].id)

\* the records of the first n calls that resolved, in the order of the calls
RECURSIVE SucceededIds(_)
SucceededIds(n) ==
  IF n = 0 THEN <<>>
  ELSE IF settled[n] THEN Append(SucceededIds(n - 1), calls[n].id)
       ELSE SucceededIds(n - 1)

\* C18: in a scheduled run scheduledActionIds holds one id for each
\* schedule call that resolved, the root step's included, in the order of
\* the calls, and none for a call that was rejected; the dependencies among
\* them are the ones the counter published counts.  (The action that a
\* resolved scheduledActions.create returns carries its sys.id.)
C18_OneIdPerScheduledItem ==
  isScheduled =>
    /\ scheduledActionIds = SucceededIds(Len(settled))
    /\ Len(SucceededIds(ItemsDone)) = pubPublished
    /\ Len(scheduledActionIds) + pubErrors = Len(settled)

\* C18's case: a scheduled run in which a dependency's call was rejected
\* and two calls or more resolved has recorded the ids
C18_Witness ==
  /\ isScheduled
  /\ ppc = "returned"
  /\ Len(errored) >= 1
  /\ Len(scheduledActionIds) >= 2
  /\ Len(scheduledActionIds) < Len(calls)

\* the records of the universe the traversal returned
Universe == Range(entries) \cup Range(assets)

\* C19: the summary's published is true if and only if the root is in the
\* published state and no entry and no asset of the universe has a
\* publishedAt later than the root's; a record published at the same time
\* as the root, or never, does not make it false.
C19_PublishedIffRootPublishedAndCurrent ==
  (Returned /\ information # NoInformation) =>
    (information[1].published <=>
       /\ sys[RootId].state = "published"
       /\ \A id \in Universe : sys[id].publishedAt <= sys[RootId].publishedAt)

\* C19's case: the root is published, every dependency is published, one
\* asset later than the root and an entry at the same time as the root:
\* the summary says it is not published
C19_Witness ==
  /\ Returned
  /\ information # NoInformation
  /\ \A id \in Universe \cup {RootId} : sys[id].state = "published"
  /\ sys[RootId].publishedAt = 1
  /\ sys["A"].publishedAt = 1
  /\ sys["B"].publishedAt = 1
  /\ sys["X"].publishedAt = 2
  /\ sys["Y"].publishedAt = 1
  /\ ~information[1].published

C21_DraftAndUpdatedPartition ==
  (information # NoInformation /\ Returned) =>
    LET info == information[1] IN
      /\ Range(info.draftEntries) \cap Range(info.updatedEntries) = {}
      /\ Range(info.draftAssets) \cap Range(info.updatedAssets) = {}
      /\ Range(info.draftEntries) \cup Range(info.updatedEntries)
           \subseteq Range(entries)
      /\ Range(info.draftAssets) \cup Range(info.updatedAssets)
           \subseteq Range(assets)
      /\ NoDuplicates(info.draftEntries \o info.updatedEntries)
      /\ NoDuplicates(info.draftAssets \o info.updatedAssets)
      /\ info.draftEntryCount = Len(info.draftEntries)
      /\ info.updatedEntryCount = Len(info.updatedEntries)
      /\ info.draftAssetCount = Len(info.draftAssets)
      /\ info.updatedAssetCount = Len(info.updatedAssets)
      /\ info.entryCount = Len(entries)
      /\ info.assetCount = Len(assets)
      /\ info.draftEntryCount + info.updatedEntryCount <= info.entryCount
      /\ info.draftAssetCount + info.updatedAssetCount <= info.assetCount
      /\ ppc = "idle" =>
           /\ info.draftEntries = SelectSeq(entries, isDraft)
           /\ info.updatedEntries = SelectSeq(entries, isUpdated)
           /\ info.draftAssets = SelectSeq(assets, isDraft)
           /\ info.updatedAssets = SelectSeq(assets, isUpdated)

\* C21's case: the summary of src/locations/Sidebar.tsx for a universe with
\* a draft, an updated and a published entry and a draft and an updated
\* asset
C21_Witness ==
  /\ impl = "plain"
  /\ ppc = "idle"
  /\ information # NoInformation
  /\ information[1].entryCount = 3
  /\ information[1].draftEntryCount = 1
  /\ information[1].updatedEntryCount = 1
  /\ information[1].draftAssetCount = 1
  /\ information[1].updatedAssetCount = 1

\* C22: an entry other than the root whose content type is one of those the
\* README lists as skipped by default (article, page, navigation,
\* siteSettings, redirects) is never expanded: no references call is issued
\* for it and it is never put in the queue.
C22_ReadmeTypesNotExpanded ==
  \A e \in EntryIds \ {RootId} :
    ctype[e] \in README_EXCLUDED_CONTENT_TYPES =>
      e \notin Fetched /\ e \notin entriesQueued

\* C23: the Sidebar shows "All up to date" only for a universe without
\* collection errors and without a draft or updated entry or asset, whose
\* root is published and not out of date.
C23_UpToDateOnlyWhenAllPublished ==
  (View = "uptodate" /\ Returned) =>
    /\ errors = <<>>
    /\ information[1].errorCount = 0
    /\ \A id \in Universe : isPublished(id)
    /\ isPublished(RootId)
    /\ \A id \in Universe : sys[id].publishedAt <= sys[RootId].publishedAt

\* C24: when the traversal has returned and every references call it issued
\* resolved with a response, the calls were issued for the root and for the
\* entries of a non-excluded content type that the responses returned, and
\* for no other id; the universe's entries are the entries those responses
\* returned and its assets are the assets they returned, no more, no less.
C24_UniverseIsClosure ==
  (Returned /\ \A id \in Fetched : outcome[id] = "resolved") =>
    /\ Fetched =
         {RootId} \cup {e \in returned \cap EntryIds : ~IsExcluded(ctype[e])}
    /\ Range(entries) = returned \cap EntryIds
    /\ Range(assets) = returned \cap AssetIds

\* the ids that were put in the queue: those taken from it and those in it
EverQueued == processedEntryIds \cup Range(entriesToProcess)

\* C25: in every state of a traversal total is the number of ids that were
\* ever put in the queue: the root and each entry of the universe whose
\* content type is not excluded; no id is in the queue twice or again after
\* it was taken from it, and when the traversal has returned total is the
\* number of ids visited, each with one references call.
C25_TotalCountsQueuedIds ==
  tpc # "idle" =>
    /\ total = Cardinality(EverQueued)
    /\ EverQueued = entriesQueued
    /\ EverQueued =
         {RootId} \cup
           {e \in Range(entries) : ctype[e] \notin EXCLUDED_CONTENT_TYPES}
    /\ NoDuplicates(entriesToProcess)
    /\ Range(entriesToProcess) \cap processedEntryIds = {}
    /\ Returned =>
         total = Cardinality(processedEntryIds) /\ total = Len(fetchCalls)

\* C25's case: a traversal that visited two ids, met an entry in more than
\* one response and an entry of an excluded content type, has returned
C25_Witness ==
  /\ Returned
  /\ total = 2
  /\ Len(entries) = 3
  /\ "Entry" \in returnedAgain
  /\ \E e \in Range(entries) \ {RootId} : ctype[e] \in EXCLUDED_CONTENT_TYPES

\* the ids in the order in which they were put in the queue: the root, then
\* the entries of a non-excluded content type in the order of their first
\* discovery, which is their order in the universe
QueueOrder ==
  <<RootId>> \o
    SelectSeq(entries,
      LAMBDA e : e # RootId /\ ctype[e] \notin EXCLUDED_CONTENT_TYPES)

\* C26: the ids for which a references call was issued, in the order of the
\* calls, followed by the ids waiting in the queue, are the ids in the order
\* in which they were put in the queue: the queue is first in, first out,
\* so the ids a node's response queued are fetched after every id queued
\* before them.  A step takes an id from the head of the queue or appends
\* ids at its end.
C26_FetchedInQueueOrder ==
  /\ [](tpc # "idle" => fetchCalls \o entriesToProcess = QueueOrder)
  /\ [][\/ entriesToProcess # <<>> /\ entriesToProcess' = Tail(entriesToProcess)
        \/ \E n \in 0..Len(entriesToProcess') :
             /\ n >= Len(entriesToProcess)
             /\ SubSeq(entriesToProcess', 1, Len(entriesToProcess))
                  = entriesToProcess
        \/ tpc = "idle"]_vars

\* C26's case: the root's response queued A and B, in this order or the
\* other; both were fetched after the root in the order of their queueing
C26_Witness ==
  /\ Returned
  /\ Len(fetchCalls) = 3
  /\ Len(reports) >= 3
  /\ reports[3] = Report(1, 3)
  /\ fetchCalls = QueueOrder
  /\ \A id \in Fetched : outcome[id] = "resolved"

\* the positions in fetchCalls of the references calls that have not settled
OutstandingFetches ==
  {i \in 1..Len(fetchCalls) : outcome[fetchCalls[i]] = "none"}

\* the number of publish and schedule calls of the run that have not settled
OutstandingCalls == Len(calls) - Len(settled)

\* C27: at any moment at most one references call of the traversal and at
\* most one publish or schedule call of the publish run has not settled; a
\* references call is issued only when every earlier one of the traversal
\* has settled, and a publish or schedule call is added to those of the run
\* only by the step that settles the one before it.
C27_OneRequestOutstanding ==
  /\ [](Cardinality(OutstandingFetches) <= 1 /\ OutstandingCalls \in {0, 1})
  /\ [][/\ (Len(fetchCalls') > Len(fetchCalls) =>
              /\ OutstandingFetches = {}
              /\ Len(fetchCalls') = Len(fetchCalls) + 1)
        /\ (Len(calls') > Len(calls) =>
              /\ Len(calls') = Len(calls) + 1
              /\ Len(settled') = Len(calls))]_vars

\* C27's case: a traversal that issued two references calls, both settled,
\* and a publish run whose second call is outstanding after the first settled
C27_Witness ==
  /\ Len(fetchCalls) >= 2
  /\ OutstandingFetches = {}
  /\ Len(calls) >= 2
  /\ OutstandingCalls = 1
  /\ ppc = "root"

\* the view has a button that starts a traversal or a publish run: Refresh,
\* Publish Now (Publish in src/locations/Sidebar.tsx) or Schedule Publish
ControlsOffered == View \in {"publish", "uptodate", "nothing"}

\* C28: while status is Reading or Publishing the Sidebar renders none of
\* the buttons that start a traversal or a publish run.  The Sidebar of
\* src/locations/Sidebar.tsx sets no publish status before the first item of
\* a run is done: until then it renders the summary with Publish and Refresh
\* while status is Publishing.
C28_NoControlWhileBusy ==
  status \in {"Reading", "Publishing"} => ~ControlsOffered

\* lines 297-303: the number of pending assets and entries of the summary
PendingCount ==
  LET info == information[1]
  IN Len(info.draftAssets) + Len(info.updatedAssets)
       + Len(info.draftEntries) + Len(info.updatedEntries)

\* the calls issued so far for dependency items, not for the root's own step
ItemCalls == {i \in 1..Len(calls) : calls[i].target # "Root"}

\* C29: in every status handed to setStatus, as it is when handed over,
\* total is the number of pending assets and entries of the summary (the
\* step for the root itself adds nothing to it: a run that reached that step
\* has issued total + 1 calls), published + errors is the number of
\* dependency items done when it was handed over and is at most total,
\* errors is the length of errored, and the status handed over after the
\* last dependency item has published + errors = total.
C29_SnapshotCounts ==
  \A i \in 1..Len(snapshots) :
    LET s == snapshots[i]
        done == i - InitialSnapshots
    IN /\ s.total = PendingCount
       /\ Cardinality(ItemCalls) <= s.total
       /\ (ppc \in {"root", "returned", "threw"} =>
             Cardinality(ItemCalls) = s.total)
       /\ Len(calls) <= s.total + 1
       /\ s.published + s.errors = done
       /\ done <= Cardinality(ItemCalls)
       /\ s.published + s.errors <= s.total
       /\ s.errors = s.errored
       /\ (done = Len(pubQueue) => s.published + s.errors = s.total)

\* C29's case: a run over two items or more, one of them failed, has handed
\* over the status of its last dependency item; doPublish has returned
C29_Witness ==
  /\ ppc = "returned"
  /\ PendingCount >= 2
  /\ Len(snapshots) = InitialSnapshots + PendingCount
  /\ Last(snapshots).published + Last(snapshots).errors = PendingCount
  /\ Last(snapshots).errors = 1
  /\ Last(snapshots).published >= 1

\* The status objects handed to setStatus hold the arrays errored and
\* scheduledActionIds of doPublish themselves (lines 410-418 and 440-449;
\* the first one, 313-321, holds a new empty array as errored and the same
\* scheduledActionIds): what a holder of the i-th status of the run reads in
\* it now.  The lengths are those of the arrays as they are now.
ReadLater(i) ==
  [snapshots[i] EXCEPT
     !.errored = IF impl = "scheduling" /\ i = 1 THEN @ ELSE Len(errored),
     !.scheduledActionIds = Len(scheduledActionIds)]

\* C30: a status handed to setStatus reads later as it was when handed over:
\* its errored and scheduledActionIds are not changed by the items processed
\* after it nor by the root's step, so that its errors is still the length
\* of its errored.
C30_SnapshotsImmutable ==
  \A i \in 1..Len(snapshots) :
    /\ ReadLater(i) = snapshots[i]
    /\ ReadLater(i).errors = ReadLater(i).errored

\* the records the run was given: its pending items and the root
RunIds == {pubQueue[i].id : i \in 1..Len(pubQueue)} \cup {RootId}

\* the traversal that handlePublish starts after doPublish returned true for
\* an immediate run (lines 545-550) has returned and is classified
FreshSummaryAfterRun ==
  /\ impl = "scheduling"
  /\ ppc = "returned"
  /\ pubResult = "true"
  /\ scheduledTime = ""
  /\ Returned
  /\ status = "Complete"
  /\ information # NoInformation

\* C31: after an immediate run that returned true, the summary of a fresh
\* traversal whose universe holds, besides the records the run was given,
\* only records that needed no publication (nobody else edits the
\* repository) has published true and no draft and no updated entry or
\* asset: every record of the universe is published, none later than the
\* root.
C31_FreshSummaryAllPublished ==
  (FreshSummaryAfterRun
     /\ \A id \in Universe : id \in RunIds \/ isPublished(id)) =>
    LET info == information[1]
    IN /\ info.published
       /\ info.draftEntryCount = 0 /\ info.updatedEntryCount = 0
       /\ info.draftAssetCount = 0 /\ info.updatedAssetCount = 0
       /\ \A id \in Universe :
            isPublished(id) /\ sys[id].publishedAt <= sys[RootId].publishedAt

\* C31's case: the run published the draft entry A and then the root, and
\* the fresh traversal found A again
C31_Witness ==
  /\ FreshSummaryAfterRun
  /\ "A" \in RunIds
  /\ "A" \in Universe
  /\ sys["A"].publishedAt > 1
  /\ sys["A"].publishedAt < sys[RootId].publishedAt
  /\ information[1].published

\* C32: at every loop boundary of a traversal processed is the number of ids
\* visited so far: each dequeued id adds exactly one to it, whether its
\* call resolved, was rejected, or the handling of its response raised.
C32_ProcessedCountsVisited ==
  tpc \in {"loop", "returned"} => processed = Cardinality(processedEntryIds)

\* the calls of the run for the record id, the root step's included
CallsFor(id) == {i \in 1..Len(calls) : calls[i].id = id}

\* C33: in a publish run no record receives more than one publish or
\* schedule call; the root receives the call of the root step only, also
\* when a reference cycle leads back to it.
C33_OneCallPerRecord ==
  \A id \in EntryIds \cup AssetIds : Cardinality(CallsFor(id)) <= 1

\* The assets an entry of the universe links, in the repository whose
\* universe PubInit describes: the root links the entries A and B, which
\* link the assets X and Y.  (A response includes the assets that the
\* entries link, lines 139-152.)
LinkedAssets(e) ==
  IF e = "A" THEN {"X"} ELSE IF e = "B" THEN {"Y"} ELSE {}

\* the assets whose call of the run was rejected
FailedAssets ==
  {calls[i].id : i \in {j \in 1..Len(settled) :
                          calls[j].target = "Asset" /\ ~settled[j]}}

\* the entries, the root included, whose call of the run resolved
EntriesLive ==
  {calls[i].id : i \in {j \in 1..Len(settled) :
                          calls[j].target # "Asset" /\ settled[j]}}

\* C34: when a publish run is over, no entry that it published or scheduled
\* links an asset whose call it saw rejected.
C34_FailedAssetBlocksEntries ==
  RunOver => \A e \in EntriesLive : LinkedAssets(e) \cap FailedAssets = {}

\* C35: whenever a publish or schedule run has finished, with true or with
\* false, the Sidebar is later out of the Publishing status and renders a
\* button (Refresh or Publish) again.
C35_PublishingEnds ==
  RunOver ~> (status # "Publishing" /\ ControlsOffered)

\* C36: the root is the first id of the queue and the first for which a
\* references call is issued, whatever its content type, and the entries of
\* a content type that is not excluded which its response includes are put
\* in the queue; every other id in the queue is of a content type that is
\* not excluded.  (The expansion is stated of the responses whose records
\* all have field values.)
C36_RootAlwaysExpanded ==
  tpc # "idle" =>
    /\ RootId \in entriesQueued
    /\ fetchCalls = <<>> => entriesToProcess = <<RootId>>
    /\ fetchCalls # <<>> => fetchCalls[1] = RootId
    /\ Returned => RootId \in Fetched
    /\ \A e \in entriesQueued \ {RootId} : ~IsExcluded(ctype[e])
    /\ (Len(fetchCalls) = 1 /\ outcome[RootId] = "resolved"
          /\ returned \cap noFields = {}) =>
         \A e \in returned \cap EntryIds :
           ~IsExcluded(ctype[e]) => e \in entriesQueued

\* C36's case: the root is of an excluded content type; its call resolved,
\* an entry that it returned was fetched in turn, and the traversal returned
C36_Witness ==
  /\ IsExcluded(ctype[RootId])
  /\ Returned
  /\ outcome[RootId] = "resolved"
  /\ Len(fetchCalls) >= 2
  /\ Len(entries) >= 1

\* the entries other than the root, of an excluded content type, that are in
\* the list (a list of entry ids)
ExcludedIn(list) ==
  {e \in Range(list) : e # RootId /\ IsExcluded(ctype[e])}

\* the calls of the entries loop for the entry e
EntryCallsFor(e) ==
  {i \in 1..Len(calls) : calls[i].target = "Entry" /\ calls[i].id = e}

PendingInSummary ==
  LET info == information[1]
  IN (Range(info.draftAssets) \cup Range(info.updatedAssets))
       \cup (Range(info.draftEntries) \cup Range(info.updatedEntries))

\* C38: when the traversal that follows a scheduled run that returned true
\* is classified, no record for which the run created a scheduled action is
\* listed as draft or updated in the summary; and no schedule call is issued
\* for a record for which the run before created a scheduled action.
C38_ScheduledOncePerRecord ==
  /\ []((ppc = "returned" /\ pubResult = "true" /\ scheduledTime # ""
           /\ Returned /\ status = "Complete" /\ information # NoInformation)
          => Range(scheduledActionIds) \cap PendingInSummary = {})
  /\ [][(ppc = "returned" /\ calls' # calls /\ calls'[1].api = "schedule")
          => calls'[1].id \notin Range(scheduledActionIds)]_vars

====
